---- MODULE Spec2Model ----
(***************************************************************************)
(* State-machine model of s3iofs: an io/fs view of an S3 bucket.           *)
(*                                                                         *)
(* The state is the bucket (store), one open handle (f, an s3File) and a   *)
(* record of the last call and its result (last).  Every action of Spec is *)
(* one exported operation of S3FS or s3File, taken as a whole.  PagingSpec *)
(* is a caller that pages through one directory handle; RaceSpec is two    *)
(* goroutines on one handle, whose methods are taken step by step;         *)
(* LockSpec is the same goroutines in the methods that take the mutex,     *)
(* scheduled fairly; RangeSpec is buildRange on its own.                   *)
(*                                                                         *)
(* Names and keys are sequences of one-character strings, so that          *)
(* "a/b" is <<"a", "/", "b">>; object contents are sequences of bytes.     *)
(* The bucket answers as S3 does: whole or ranged GETs of the current      *)
(* object, 416 InvalidRange for a range that starts at or past the end,    *)
(* listings in key order.  Streams deliver what the bucket answered.  The  *)
(* client may fail one request of an Open, Stat or ReadDir with an error   *)
(* that is not NotFound (Denied).                                          *)
(***************************************************************************)
EXTENDS Integers, Sequences, FiniteSets, TLC

VARIABLES scn, store, f, last, stale, acc, accStart, written, paging, conc, streaming

vars == <<scn, store, f, last, stale, acc, accStart, written, paging, conc,
         streaming>>

----------------------------------------------------------------------------
(* Bounds and inputs *)

\* longest object written
MaxLen == 2

Min(a, b) == IF a < b THEN a ELSE b

Root == <<".">>

EmptyName == <<>>

\* an object body of n bytes; every byte names its version and its position
Payload(v, n) == [i \in 1..n |-> <<v, i>>]

\* the data WriteFile is called with: a body of every length, and a second
\* body of the greatest length with other bytes
Payloads == { Payload(1, n) : n \in 0..MaxLen } \cup { Payload(2, MaxLen) }

\* buffer lengths, ReadAt offsets and Seek offsets reach past the end of
\* every object shorter than MaxLen
BufLens == 0..MaxLen

Offsets == 0..MaxLen

Deltas == (0 - MaxLen)..MaxLen

\* the whence values of package io
SeekStart == 0

SeekCurrent == 1

SeekEnd == 2

\* the whence values callers pass: the three of package io and one that is none of them
Whences == { SeekStart, SeekCurrent, SeekEnd, SeekEnd + 1 }

\* greatest page size asked of a directory handle
MaxPage == 2

\* which request of a call the client fails: none (0), the first or the
\* second
Faults == { 0, 1, 2 }

\* the n of ReadDir(n): 0 asks for every entry at once
PageSizes == 0..MaxPage

\* the keys of the Listing callers
ListingKeys == { <<"a">>, <<"a", "/", "a">>, <<"a", "/", "b">>, <<"b", "/", "a">> }

Listing(pages) ==
    [names |-> { Root } \cup ListingKeys, data |-> { Payload(1, 1) },
     bufs |-> {}, offs |-> {}, deltas |-> {}, whences |-> {}, pages |-> pages,
     faults |-> { 0 }]

\* A run's callers draw their arguments from one of four sets.
\* Files: the root and one file, written with every payload and read, sought
\* and closed with every buffer length, offset and whence.
\* Tree: the root, the empty name, a name that may be a file or a directory,
\* a key beneath it, a sibling key that sorts before "a/" and a name
\* fs.ValidPath rejects, written with one payload and read and sought with
\* one buffer length and offset.
\* Listing: the root, a name that is a file and a directory, two keys beneath
\* it and a key beneath a second directory, written with one payload and
\* listed with every page size.
\* Failing: the root, a name that may be a file or a directory and a key
\* beneath it, opened, examined and listed through a client that may fail
\* the first or the second request of a call, read with one buffer length
\* and paged one entry at a time.
Scenarios ==
    { [names |-> { Root, <<"a">> }, data |-> Payloads,
       bufs |-> BufLens, offs |-> Offsets, deltas |-> Deltas,
       whences |-> Whences, pages |-> {}, faults |-> { 0 }],
      [names |-> { Root, EmptyName, <<"a">>, <<"a", "/", "b">>, <<"a", "-">>, <<"/", "a">> },
       data |-> { Payload(1, 1) },
       bufs |-> { 1 }, offs |-> { 0 }, deltas |-> { 0 },
       whences |-> { SeekStart }, pages |-> {}, faults |-> { 0 }],
      Listing(PageSizes),
      [names |-> { Root, <<"a">>, <<"a", "/", "b">> }, data |-> { Payload(1, 1) },
       bufs |-> { 1 }, offs |-> {}, deltas |-> {}, whences |-> {}, pages |-> { 1 },
       faults |-> Faults] }

----------------------------------------------------------------------------
(* Strings *)

\* the characters of the names above in byte order: '-' < '.' < '/' < 'a' < 'b'
CharOrder == <<"-", ".", "/", "a", "b">>

Ord(c) == CHOOSE i \in 1..Len(CharOrder) : CharOrder[i] = c

\* s < t in the byte-wise lexicographic order S3 lists keys in
LexLess(s, t) ==
    \E i \in 1..(Min(Len(s), Len(t)) + 1) :
        /\ \A j \in 1..(i - 1) : s[j] = t[j]
        /\ \/ i > Len(s) /\ i <= Len(t)
           \/ i <= Len(s) /\ i <= Len(t) /\ Ord(s[i]) < Ord(t[i])

HasPrefix(s, p) == Len(p) <= Len(s) /\ SubSeq(s, 1, Len(p)) = p

\* index of the first "/" of s at or after position from, or Len(s) + 1
SlashFrom(s, from) ==
    IF \E i \in from..Len(s) : s[i] = "/"
    THEN CHOOSE i \in from..Len(s) : s[i] = "/" /\ \A j \in from..(i - 1) : s[j] # "/"
    ELSE Len(s) + 1

\* io/fs.ValidPath: "." is valid; otherwise every "/"-separated element must
\* be non-empty and neither "." nor ".."
RECURSIVE ValidElems(_)
ValidElems(name) ==
    LET i == SlashFrom(name, 1)
        elem == SubSeq(name, 1, i - 1)
    IN  IF elem \in { <<>>, <<".">>, <<".", ".">> } THEN FALSE
        ELSE IF i > Len(name) THEN TRUE
        ELSE ValidElems(SubSeq(name, i + 1, Len(name)))

ValidPath(name) == name = Root \/ ValidElems(name)

\* name without its trailing slashes
RECURSIVE TrimSlashes(_)
TrimSlashes(name) ==
    IF name # <<>> /\ name[Len(name)] = "/"
    THEN TrimSlashes(SubSeq(name, 1, Len(name) - 1))
    ELSE name

\* what follows the last "/" of name
RECURSIVE AfterLastSlash(_)
AfterLastSlash(name) ==
    LET i == SlashFrom(name, 1)
    IN  IF i > Len(name) THEN name ELSE AfterLastSlash(SubSeq(name, i + 1, Len(name)))

\* path.Base: "." for the empty name, "/" for a name of slashes only,
\* otherwise the last element, trailing slashes removed
Base(name) ==
    IF name = <<>> THEN <<".">>
    ELSE IF TrimSlashes(name) = <<>> THEN <<"/">>
    ELSE AfterLastSlash(TrimSlashes(name))

\* url.JoinPath(name, "/") for the names used here: the name with one "/"
\* after it (none of these names has an element JoinPath would clean away or
\* a character it would escape, and the result for "." is not used)
JoinPath(name) == name \o <<"/">>

----------------------------------------------------------------------------
(* Errors *)

NoErr == [kind |-> "nil", op |-> "", path |-> <<>>]

\* an error value that is not wrapped in a PathError
Bare(kind) == [kind |-> kind, op |-> "", path |-> <<>>]

\* &fs.PathError{Op: op, Path: path, Err: kind}
\* the error of a request the client fails: any error that is not
\* types.NotFound, such as a refused credential or a broken connection
Denied == "AccessDenied"

PathError(op, path, kind) == [kind |-> kind, op |-> op, path |-> path]

----------------------------------------------------------------------------
(* The bucket: the S3API the filesystem is given *)

NoRange == [kind |-> "none", first |-> 0, last |-> 0]

\* GetObject: NotFound for an absent key; the whole object without a Range;
\* for bytes=first-last the bytes first..min(last, size-1), and InvalidRange
\* when first is at or past the end; a range with last < first is ignored
GetObject(st, key, rng) ==
    IF key \notin DOMAIN st
    THEN [err |-> "NotFound", data |-> <<>>, size |-> 0]
    ELSE LET obj == st[key]
             whole == [err |-> "nil", data |-> obj, size |-> Len(obj)]
             invalid == [err |-> "InvalidRange", data |-> <<>>, size |-> 0]
         IN  CASE rng.kind = "none" -> whole
               [] rng.kind = "open" ->
                    IF rng.first >= Len(obj) THEN invalid
                    ELSE [err |-> "nil", data |-> SubSeq(obj, rng.first + 1, Len(obj)),
                          size |-> Len(obj) - rng.first]
               [] OTHER ->
                    IF rng.last < rng.first THEN whole
                    ELSE IF rng.first >= Len(obj) THEN invalid
                    ELSE LET end == Min(rng.last + 1, Len(obj))
                         IN  [err |-> "nil", data |-> SubSeq(obj, rng.first + 1, end),
                              size |-> end - rng.first]

\* PutObject always overwrites
PutObject(st, key, data) == [k \in DOMAIN st \cup {key} |-> IF k = key THEN data ELSE st[k]]

\* DeleteObject succeeds whether or not the key is present
DeleteObject(st, key) == [k \in DOMAIN st \ {key} |-> st[k]]

\* a key seen through prefix and the delimiter "/": itself, or rolled up into
\* the common prefix that ends at the first "/" after the prefix
RollUp(key, prefix, size) ==
    LET i == SlashFrom(key, Len(prefix) + 1)
    IN  IF i <= Len(key) THEN [dir |-> TRUE, name |-> SubSeq(key, 1, i), size |-> 0]
        ELSE [dir |-> FALSE, name |-> key, size |-> size]

\* the entries of S in key order: the i-th is the one that i - 1 others precede
SortEntries(S) ==
    [i \in 1..Cardinality(S) |->
        CHOOSE e \in S : Cardinality({ x \in S : LexLess(x.name, e.name) }) = i - 1]

IsPrefixEntry(e) == e.dir

IsObjectEntry(e) == ~e.dir

\* ListObjectsV2 with Delimiter "/": the keys under prefix, rolled up, that
\* sort after startAfter (<<>> when unset; a common prefix that startAfter
\* names is not listed again), in key order, cut to maxKeys entries (0 when
\* unset), split into CommonPrefixes and Contents
ListObjectsV2(st, prefix, maxKeys, startAfter) ==
    LET matching == { k \in DOMAIN st : HasPrefix(k, prefix) }
        rolled == { RollUp(k, prefix, Len(st[k])) : k \in matching }
        entries == { e \in rolled : startAfter = <<>> \/ LexLess(startAfter, e.name) }
        count == IF maxKeys > 0 THEN Min(maxKeys, Cardinality(entries))
                 ELSE Cardinality(entries)
    IN  CHOOSE list \in { [CommonPrefixes |-> SelectSeq(page, IsPrefixEntry),
                           Contents |-> SelectSeq(page, IsObjectEntry)] :
                             page \in { SubSeq(SortEntries(entries), 1, count) } } : TRUE

----------------------------------------------------------------------------
(* s3File: the handle *)

\* body == nil
NoBody == [open |-> FALSE, data |-> <<>>, pos |-> 0]

\* no handle has been opened yet
NoFile == [kind |-> "none", name |-> <<>>, size |-> 0, offset |-> 0,
           body |-> NoBody, lastDirEntry |-> <<>>, s3client |-> FALSE]

Req(api, key, rng) == [api |-> api, key |-> key, range |-> rng]

\* buildRange with the first byte one too far
buildRangeShifted(offset, length) ==
    IF offset > 0 /\ length < 0
    THEN [kind |-> "open", first |-> offset, last |-> 0]
    ELSE IF length = 0
    THEN [kind |-> "closed", first |-> offset, last |-> offset + 1]
    ELSE IF length >= 0
    THEN [kind |-> "closed", first |-> offset + 1, last |-> offset + length]
    ELSE [kind |-> "none", first |-> 0, last |-> 0]

\* buildRange with the last byte one too far
buildRangeLong(offset, length) ==
    IF offset > 0 /\ length < 0
    THEN [kind |-> "open", first |-> offset, last |-> 0]
    ELSE IF length = 0
    THEN [kind |-> "closed", first |-> offset, last |-> offset + 1]
    ELSE IF length >= 0
    THEN [kind |-> "closed", first |-> offset, last |-> offset + length]
    ELSE [kind |-> "none", first |-> 0, last |-> 0]

\* buildRange that asks for everything from offset 0 on as well
buildRangeOpenFromZero(offset, length) ==
    IF offset >= 0 /\ length < 0
    THEN [kind |-> "open", first |-> offset, last |-> 0]
    ELSE IF length = 0
    THEN [kind |-> "closed", first |-> offset, last |-> offset + 1]
    ELSE IF length >= 0
    THEN [kind |-> "closed", first |-> offset, last |-> offset + length - 1]
    ELSE NoRange

\* the Range header of a read of length bytes at offset
buildRange(offset, length) ==
    IF offset > 0 /\ length < 0
    THEN [kind |-> "open", first |-> offset, last |-> 0]
    ELSE IF length = 0
    THEN [kind |-> "closed", first |-> offset, last |-> offset + 1]
    ELSE IF length >= 0
    THEN [kind |-> "closed", first |-> offset, last |-> offset + length - 1]
    ELSE NoRange

\* readerAt: one ranged GetObject of the handle's key; a client error comes
\* back wrapped in a PathError
readerAt(h, st, offset, length) ==
    LET rng == buildRange(offset, length)
        res == GetObject(st, h.name, rng)
    IN  [err |-> IF res.err # "nil" THEN PathError("read", h.name, res.err) ELSE NoErr,
         data |-> res.data,
         req |-> Req("GetObject", h.name, rng)]

\* io.ReadFull(r, p) with len(p) = buf on a stream that holds `stream`:
\* nil when p is filled, EOF when nothing was read, ErrUnexpectedEOF between
ReadFull(stream, buf) ==
    LET n == Min(buf, Len(stream))
    IN  [n |-> n,
         data |-> SubSeq(stream, 1, n),
         err |-> IF n >= buf THEN "nil" ELSE IF n = 0 THEN "EOF" ELSE "ErrUnexpectedEOF"]

\* pastEnd with the end itself counted as past it
pastEndOrAt(h, off, n) == off + n >= h.size

\* ReadAt's test that a short read went past the size the handle recorded
pastEnd(h, off, n) == off + n > h.size

\* s3File.ReadAt(p, off) with len(p) = buf.  closed is FALSE when the call
\* returns with the stream of its request still open, short says whether
\* the stream ended before p was filled
ReadAtResult(h, st, buf, off) ==
    LET r == readerAt(h, st, off, buf)
        full == ReadFull(r.data, buf)
    IN  IF r.err.kind # "nil"
        THEN [n |-> 0, data |-> <<>>, err |-> r.err, reqs |-> <<r.req>>,
              short |-> FALSE, closed |-> TRUE]
        ELSE IF full.err = "EOF"
        THEN [n |-> full.n, data |-> full.data, err |-> Bare("EOF"), reqs |-> <<r.req>>,
              short |-> TRUE, closed |-> FALSE]
        ELSE IF full.err # "nil" /\ pastEnd(h, off, full.n)
        THEN [n |-> full.n, data |-> full.data, err |-> Bare(full.err), reqs |-> <<r.req>>,
              short |-> TRUE, closed |-> FALSE]
        ELSE [n |-> full.n, data |-> full.data, err |-> NoErr, reqs |-> <<r.req>>,
              short |-> full.err # "nil", closed |-> TRUE]

\* body.Read(p) with len(p) = buf on the stream GetObject returned: any
\* number of the remaining bytes from 1 to len(p), with EOF either together
\* with the last byte or on the call after it
BodyRead(body, buf) ==
    LET rem == Len(body.data) - body.pos
    IN  IF buf = 0 THEN { [n |-> 0, err |-> "nil"] }
        ELSE IF rem = 0 THEN { [n |-> 0, err |-> "EOF"] }
        ELSE { [n |-> n, err |-> "nil"] : n \in 1..Min(buf, rem) }
             \cup { [n |-> rem, err |-> "EOF"] : n \in { x \in {rem} : x <= buf } }

\* the part of s3File.Read that runs with the mutex held: from the body
\* when there is one, otherwise through ReadAt at the offset
ReadLocked(h, st, buf) ==
    IF h.body.open
    THEN { [n |-> c.n,
            data |-> SubSeq(h.body.data, h.body.pos + 1, h.body.pos + c.n),
            err |-> IF c.err = "nil" THEN NoErr ELSE Bare(c.err),
            body |-> [h.body EXCEPT !.pos = @ + c.n],
            reqs |-> <<>>, via |-> "body", short |-> FALSE,
            closed |-> TRUE] : c \in BodyRead(h.body, buf) }
    ELSE LET r == ReadAtResult(h, st, buf, h.offset)
             atEnd == h.offset + r.n = h.size
         IN  { [n |-> r.n, data |-> r.data,
                err |-> IF r.err.kind = "ErrUnexpectedEOF" /\ atEnd THEN Bare("EOF") ELSE r.err,
                body |-> h.body, reqs |-> r.reqs, via |-> "readAt", short |-> r.short,
                closed |-> r.closed] }

\* Read that tests the offset against the size before it tests for a
\* directory
ReadResultsSizeFirst(h, st, buf) ==
    IF h.offset >= h.size
    THEN { [n |-> 0, data |-> <<>>, err |-> Bare("EOF"),
            body |-> h.body, reqs |-> <<>>, via |-> "eof", short |-> FALSE,
            closed |-> TRUE] }
    ELSE IF h.kind = "dir"
    THEN { [n |-> 0, data |-> <<>>, err |-> PathError("read", h.name, "IsDir"),
            body |-> h.body, reqs |-> <<>>, via |-> "none", short |-> FALSE,
            closed |-> TRUE] }
    ELSE ReadLocked(h, st, buf)

\* s3File.Read(p) with len(p) = buf: the results it may return and the body
\* it leaves
ReadResults(h, st, buf) ==
    IF h.kind = "dir"
    THEN { [n |-> 0, data |-> <<>>, err |-> PathError("read", h.name, "IsDir"),
            body |-> h.body, reqs |-> <<>>, via |-> "none", short |-> FALSE,
            closed |-> TRUE] }
    ELSE IF h.offset >= h.size
    THEN { [n |-> 0, data |-> <<>>, err |-> Bare("EOF"),
            body |-> h.body, reqs |-> <<>>, via |-> "eof", short |-> FALSE,
            closed |-> TRUE] }
    ELSE ReadLocked(h, st, buf)

\* SeekTarget that takes io.SeekEnd for io.SeekStart
SeekTargetEndAsStart(h, offset, whence) ==
    IF whence = SeekCurrent THEN offset + h.offset ELSE offset

\* the absolute offset a Seek asks for
SeekTarget(h, offset, whence) ==
    IF whence = SeekCurrent THEN offset + h.offset
    ELSE IF whence = SeekEnd THEN offset + h.size
    ELSE offset

\* Seek that stores the target before it checks it
SeekResultAssignsFirst(h, offset, whence) ==
    LET target == SeekTarget(h, offset, whence)
        h1 == [h EXCEPT !.body = NoBody, !.offset = target]
        invalid == [file |-> h1, ret |-> 0, err |-> PathError("seek", h.name, "ErrInvalid")]
    IN  IF whence \notin { SeekStart, SeekCurrent, SeekEnd } THEN invalid
        ELSE IF target < 0 \/ target > h.size THEN invalid
        ELSE [file |-> h1, ret |-> target, err |-> NoErr]

\* Seek that leaves the body in place
SeekResultKeepsBody(h, offset, whence) ==
    LET target == SeekTarget(h, offset, whence)
        invalid == [file |-> h, ret |-> 0, err |-> PathError("seek", h.name, "ErrInvalid")]
    IN  IF whence \notin { SeekStart, SeekCurrent, SeekEnd } THEN invalid
        ELSE IF target < 0 \/ target > h.size THEN invalid
        ELSE [file |-> [h EXCEPT !.offset = target], ret |-> target, err |-> NoErr]

\* s3File.Seek(offset, whence): the body is closed and dropped first, then
\* the target is checked
SeekResult(h, offset, whence) ==
    LET h1 == [h EXCEPT !.body = NoBody]
        target == SeekTarget(h, offset, whence)
        invalid == [file |-> h1, ret |-> 0, err |-> PathError("seek", h.name, "ErrInvalid")]
    IN  IF whence \notin { SeekStart, SeekCurrent, SeekEnd } THEN invalid
        ELSE IF target < 0 \/ target > h.size THEN invalid
        ELSE [file |-> [h1 EXCEPT !.offset = target], ret |-> target, err |-> NoErr]

\* Close that leaves the body in place
CloseResultKeepsBody(h) == h

\* s3File.Close: the body is closed and dropped
CloseResult(h) == [h EXCEPT !.body = NoBody]

----------------------------------------------------------------------------
(* S3FS: the filesystem *)

DirFile(name, client) ==
    [kind |-> "dir", name |-> name, size |-> 0, offset |-> 0,
     body |-> NoBody, lastDirEntry |-> <<>>, s3client |-> client]

\* stat that takes the first object listed for the file, whatever its key
statAnyObject(st, name, fault) ==
    LET list == ListObjectsV2(st, name, 1, <<>>)
        req == Req("ListObjectsV2", name, NoRange)
        notExist == [err |-> PathError("open", name, "ErrNotExist"), file |-> NoFile]
    IN  IF name = Root
        THEN [err |-> NoErr, file |-> DirFile(name, FALSE), reqs |-> <<>>]
        ELSE IF fault = 1
        THEN [err |-> notExist.err, file |-> NoFile, reqs |-> <<req>>]
        ELSE IF Len(list.CommonPrefixes) > 0 /\ list.CommonPrefixes[1].name = name \o <<"/">>
        THEN [err |-> NoErr, file |-> DirFile(name, FALSE), reqs |-> <<req>>]
        ELSE IF Len(list.Contents) > 0
        THEN [err |-> NoErr,
              file |-> [kind |-> "file", name |-> name, size |-> list.Contents[1].size,
                        offset |-> 0, body |-> NoBody, lastDirEntry |-> <<>>,
                        s3client |-> FALSE],
              reqs |-> <<req>>]
        ELSE [err |-> notExist.err, file |-> NoFile, reqs |-> <<req>>]

\* stat that lists for the root as for any other name
statListsRoot(st, name, fault) ==
    LET list == ListObjectsV2(st, name, 1, <<>>)
        req == Req("ListObjectsV2", name, NoRange)
        notExist == [err |-> PathError("open", name, "ErrNotExist"), file |-> NoFile]
    IN  IF fault = 1
        THEN [err |-> notExist.err, file |-> NoFile, reqs |-> <<req>>]
        ELSE IF Len(list.CommonPrefixes) > 0 /\ list.CommonPrefixes[1].name = name \o <<"/">>
        THEN [err |-> NoErr, file |-> DirFile(name, FALSE), reqs |-> <<req>>]
        ELSE IF Len(list.Contents) > 0 /\ list.Contents[1].name = name
        THEN [err |-> NoErr,
              file |-> [kind |-> "file", name |-> name, size |-> list.Contents[1].size,
                        offset |-> 0, body |-> NoBody, lastDirEntry |-> <<>>,
                        s3client |-> FALSE],
              reqs |-> <<req>>]
        ELSE [err |-> notExist.err, file |-> NoFile, reqs |-> <<req>>]

\* S3FS.stat: the root without a request; otherwise one listing of at most
\* one key under the name.  fault = 1: the client fails the listing, and
\* stat answers as for a name that is not there.
stat(st, name, fault) ==
    LET list == ListObjectsV2(st, name, 1, <<>>)
        req == Req("ListObjectsV2", name, NoRange)
        notExist == [err |-> PathError("open", name, "ErrNotExist"), file |-> NoFile]
    IN  IF name = Root
        THEN [err |-> NoErr, file |-> DirFile(name, FALSE), reqs |-> <<>>]
        ELSE IF fault = 1
        THEN [err |-> notExist.err, file |-> NoFile, reqs |-> <<req>>]
        ELSE IF Len(list.CommonPrefixes) > 0 /\ list.CommonPrefixes[1].name = name \o <<"/">>
        THEN [err |-> NoErr, file |-> DirFile(name, FALSE), reqs |-> <<req>>]
        ELSE IF Len(list.Contents) > 0 /\ list.Contents[1].name = name
        THEN [err |-> NoErr,
              file |-> [kind |-> "file", name |-> name, size |-> list.Contents[1].size,
                        offset |-> 0, body |-> NoBody, lastDirEntry |-> <<>>,
                        s3client |-> FALSE],
              reqs |-> <<req>>]
        ELSE [err |-> notExist.err, file |-> NoFile, reqs |-> <<req>>]

\* S3FS.openDirectory: the stat result when it is a directory
openDirectory(st, name, fault) ==
    LET s == stat(st, name, fault)
    IN  IF s.err.kind # "nil" THEN s
        ELSE IF s.file.kind = "dir" THEN s
        ELSE [err |-> PathError("open", name, "ErrNotExist"), file |-> NoFile, reqs |-> s.reqs]

\* Open that drops the response body and leaves the handle without one
OpenResultNoBody(st, name, fault) ==
    LET req == Req("GetObject", name, NoRange)
        res == GetObject(st, name, NoRange)
        dir == openDirectory(st, name, IF fault = 2 THEN 1 ELSE 0)
    IN  IF ~ValidPath(name)
        THEN [err |-> PathError("open", name, "ErrInvalid"), file |-> NoFile, reqs |-> <<>>]
        ELSE IF name = Root
        THEN [err |-> NoErr, file |-> DirFile(name, TRUE), reqs |-> <<>>]
        ELSE IF fault = 1
        THEN [err |-> Bare(Denied), file |-> NoFile, reqs |-> <<req>>]
        ELSE IF res.err = "NotFound"
        THEN [dir EXCEPT !.reqs = <<req>> \o @]
        ELSE IF res.err # "nil"
        THEN [err |-> Bare(res.err), file |-> NoFile, reqs |-> <<req>>]
        ELSE [err |-> NoErr,
              file |-> [kind |-> "file", name |-> name, size |-> res.size, offset |-> 0,
                        body |-> NoBody, lastDirEntry |-> <<>>, s3client |-> TRUE],
              reqs |-> <<req>>]

\* S3FS.Open.  fault = 1: the client fails the GetObject; fault = 2: it
\* fails the listing of the fallback.
OpenResult(st, name, fault) ==
    LET req == Req("GetObject", name, NoRange)
        res == GetObject(st, name, NoRange)
        dir == openDirectory(st, name, IF fault = 2 THEN 1 ELSE 0)
    IN  IF ~ValidPath(name)
        THEN [err |-> PathError("open", name, "ErrInvalid"), file |-> NoFile, reqs |-> <<>>]
        ELSE IF name = Root
        THEN [err |-> NoErr, file |-> DirFile(name, TRUE), reqs |-> <<>>]
        ELSE IF fault = 1
        THEN [err |-> Bare(Denied), file |-> NoFile, reqs |-> <<req>>]
        ELSE IF res.err = "NotFound"
        THEN [dir EXCEPT !.reqs = <<req>> \o @]
        ELSE IF res.err # "nil"
        THEN [err |-> Bare(res.err), file |-> NoFile, reqs |-> <<req>>]
        ELSE [err |-> NoErr,
              file |-> [kind |-> "file", name |-> name, size |-> res.size, offset |-> 0,
                        body |-> [open |-> TRUE, data |-> res.data, pos |-> 0],
                        lastDirEntry |-> <<>>, s3client |-> TRUE],
              reqs |-> <<req>>]

\* RejectedName that lets the empty name through
RejectedNameRootOnly(name) == name = Root

\* S3FS.WriteFile and S3FS.Remove reject the root and the empty name only
RejectedName(name) == name = Root \/ name = EmptyName

\* the s3File of a common prefix or an object of a listing
EntryFile(e) ==
    [kind |-> IF e.dir THEN "dir" ELSE "file", name |-> e.name, size |-> e.size,
     offset |-> 0, body |-> NoBody, lastDirEntry |-> <<>>, s3client |-> TRUE]

\* listResToEntries: the common prefixes as directories, then the objects
\* as files, each with the client
listResToEntries(list) ==
    [i \in 1..(Len(list.CommonPrefixes) + Len(list.Contents)) |->
        IF i <= Len(list.CommonPrefixes)
        THEN EntryFile(list.CommonPrefixes[i])
        ELSE EntryFile(list.Contents[i - Len(list.CommonPrefixes)])]

\* s3File.Name
Name(h) == Base(h.name)

\* S3FS.Stat: stat, an error wrapped in a PathError of op "stat" (which
\* still answers errors.Is for the error inside)
StatResult(st, name, fault) ==
    LET s == stat(st, name, fault)
    IN  IF s.err.kind # "nil"
        THEN [err |-> PathError("stat", name, s.err.kind), file |-> NoFile, reqs |-> s.reqs]
        ELSE s

\* S3FS.ReadDir: stat, then one listing of the whole directory.  fault
\* counts the requests of the call: the listing is the first for the root,
\* the second otherwise.
ReadDirResult(st, name, fault) ==
    LET s == stat(st, name, fault)
        prefix == IF name = Root THEN <<>> ELSE JoinPath(name)
        list == ListObjectsV2(st, prefix, 0, <<>>)
        req == Req("ListObjectsV2", prefix, NoRange)
    IN  IF s.err.kind # "nil"
        THEN [err |-> s.err, entries |-> <<>>, reqs |-> s.reqs]
        ELSE IF s.file.kind # "dir"
        THEN [err |-> PathError("read", name, "ErrNotExist"), entries |-> <<>>,
              reqs |-> s.reqs]
        ELSE IF fault = Len(s.reqs) + 1
        THEN [err |-> Bare(Denied), entries |-> <<>>, reqs |-> s.reqs \o <<req>>]
        ELSE [err |-> NoErr, entries |-> listResToEntries(list),
              reqs |-> s.reqs \o <<req>>]

\* s3File.ReadDir(n): one listing under the handle's name, after
\* lastDirEntry when that is set, of at most n entries when n > 0; a full
\* page moves lastDirEntry to the name of the page's last entry.  A handle
\* without a client panics at the call of ListObjectsV2.
NextPageResult(h, st, n) ==
    LET prefix == IF h.name = Root THEN <<>> ELSE h.name
        list == ListObjectsV2(st, prefix, IF n > 0 THEN n ELSE 0, h.lastDirEntry)
        entries == listResToEntries(list)
        req == Req("ListObjectsV2", prefix, NoRange)
    IN  IF h.kind # "dir"
        THEN [err |-> PathError("read", Name(h), "ErrNotExist"), entries |-> <<>>,
              file |-> h, reqs |-> <<>>]
        ELSE IF ~h.s3client
        THEN [err |-> Bare("panic"), entries |-> <<>>, file |-> h, reqs |-> <<>>]
        ELSE IF Len(entries) = 0
        THEN [err |-> Bare("EOF"), entries |-> <<>>, file |-> h, reqs |-> <<req>>]
        ELSE [err |-> NoErr, entries |-> entries,
              file |-> IF n > 0 /\ Len(entries) = n
                       THEN [h EXCEPT !.lastDirEntry = entries[n].name]
                       ELSE h,
              reqs |-> <<req>>]

----------------------------------------------------------------------------
(* The state machine *)

\* the record of a call: its arguments, the handle offset before it (pre),
\* which of its requests the client failed (fault), what it returned,
\* whether it left a stream it had requested open (leak) and how many times
\* it closed the handle's body (closes)
NoCall == [op |-> "none", path |-> <<>>, buf |-> 0, at |-> 0, whence |-> 0, pre |-> 0,
           n |-> 0, ret |-> 0, data |-> <<>>, err |-> NoErr, reqs |-> <<>>,
           via |-> "none", short |-> FALSE, info |-> NoFile, entries |-> <<>>,
           tick |-> 0, fault |-> 0, leak |-> FALSE, closes |-> 0]

\* what the ReadDir calls on the handle have returned so far: the page size
\* of the calls (0 before the first, -1 once two calls differed or one was
\* unbounded), the names returned, whether a name came twice, and whether
\* end-of-stream was reported
NoPaging == [n |-> 0, seen |-> {}, dup |-> FALSE, done |-> FALSE]

\* the calls are no longer one run of equal pages over one content
Unpaged == [NoPaging EXCEPT !.n = 0 - 1]

\* no field of the handle has been accessed
NoAccess == [proc |-> 0, field |-> "none", write |-> FALSE, locked |-> TRUE]

\* no goroutine is inside a method of the handle
NoConc == [mutex |-> 0, pc |-> <<>>, arg |-> <<>>, cursor |-> <<>>, access |-> NoAccess,
           closed |-> FALSE, late |-> FALSE]

Init ==
    /\ scn \in Scenarios
    /\ store = <<>>
    /\ f = NoFile
    /\ last = NoCall
    /\ stale = FALSE
    /\ acc = <<>>
    /\ accStart = 0
    /\ written = <<>>
    /\ paging = NoPaging
    /\ conc = NoConc
    /\ streaming = FALSE

Open(name, fault) ==
    /\ \E r \in { OpenResult(store, name, fault) }, ok \in BOOLEAN :
        /\ ok = (r.err.kind = "nil")
        /\ f' = IF ok THEN r.file ELSE f
        /\ last' = [NoCall EXCEPT !.op = "Open", !.path = name, !.err = r.err,
                                  !.reqs = r.reqs, !.fault = fault]
        /\ stale' = IF ok THEN FALSE ELSE stale
        /\ acc' = IF ok THEN <<>> ELSE acc
        /\ accStart' = IF ok THEN 0 ELSE accStart
        /\ paging' = IF ok THEN NoPaging ELSE paging
        /\ streaming' = IF ok THEN FALSE ELSE streaming
    /\ UNCHANGED <<scn, store, written, conc>>

Read(buf) ==
    /\ f.kind # "none"
    /\ \E r \in ReadResults(f, store, buf) :
        /\ f' = [f EXCEPT !.offset = @ + r.n, !.body = r.body]
        /\ last' = [NoCall EXCEPT !.op = "Read", !.buf = buf, !.pre = f.offset,
                                  !.n = r.n, !.data = r.data, !.err = r.err,
                                  !.reqs = r.reqs, !.via = r.via, !.short = r.short,
                                  !.leak = ~r.closed]
        /\ acc' = acc \o r.data
    /\ streaming' = (f.kind = "file")
    /\ UNCHANGED <<scn, store, stale, accStart, written, paging, conc>>

\* ReadAt that moves the handle's offset past the bytes it read
ReadAtAdvances(buf, off) ==
    /\ f.kind = "file"
    /\ LET r == ReadAtResult(f, store, buf, off)
       IN  /\ last' = [NoCall EXCEPT !.op = "ReadAt", !.buf = buf, !.at = off,
                                     !.pre = f.offset, !.n = r.n, !.data = r.data,
                                     !.err = r.err, !.reqs = r.reqs, !.via = "readAt",
                                     !.short = r.short, !.leak = ~r.closed]
           /\ f' = [f EXCEPT !.offset = off + r.n]
    /\ UNCHANGED <<scn, store, stale, acc, accStart, written, paging, conc, streaming>>

\* s3File.ReadAt
ReadAt(buf, off) ==
    /\ f.kind = "file"
    /\ LET r == ReadAtResult(f, store, buf, off)
       IN  last' = [NoCall EXCEPT !.op = "ReadAt", !.buf = buf, !.at = off,
                                  !.pre = f.offset, !.n = r.n, !.data = r.data,
                                  !.err = r.err, !.reqs = r.reqs, !.via = "readAt",
                                  !.short = r.short, !.leak = ~r.closed]
    /\ UNCHANGED <<scn, store, f, stale, acc, accStart, written, paging, conc, streaming>>

Seek(offset, whence) ==
    /\ f.kind # "none"
    /\ LET r == SeekResult(f, offset, whence)
           ok == r.err.kind = "nil"
       IN  /\ f' = r.file
           /\ last' = [NoCall EXCEPT !.op = "Seek", !.at = offset, !.whence = whence,
                                     !.pre = f.offset, !.ret = r.ret, !.err = r.err,
                                     !.closes = IF f.body.open THEN 1 ELSE 0]
           /\ acc' = IF ok THEN <<>> ELSE acc
           /\ accStart' = IF ok THEN r.ret ELSE accStart
    /\ streaming' = FALSE
    /\ UNCHANGED <<scn, store, stale, written, paging, conc>>

\* s3File.Close; tick is 1 when the call before was a Close as well
Close ==
    /\ f.kind # "none"
    /\ f' = CloseResult(f)
    /\ last' = [NoCall EXCEPT !.op = "Close", !.pre = f.offset,
                              !.closes = IF f.body.open THEN 1 ELSE 0,
                              !.tick = IF last.op = "Close" THEN 1 ELSE 0]
    /\ streaming' = FALSE
    /\ UNCHANGED <<scn, store, stale, acc, accStart, written, paging, conc>>

WriteFile(name, data) ==
    /\ IF RejectedName(name)
       THEN /\ last' = [NoCall EXCEPT !.op = "WriteFile", !.path = name, !.data = data,
                                      !.err = PathError("write", name, "ErrInvalid")]
            /\ UNCHANGED <<store, stale, written>>
       ELSE /\ store' = PutObject(store, name, data)
            /\ written' = PutObject(written, name, data)
            /\ stale' = (stale \/ f.kind = "dir" \/ (f.kind = "file" /\ f.name = name))
            /\ last' = [NoCall EXCEPT !.op = "WriteFile", !.path = name, !.data = data,
                                      !.reqs = <<Req("PutObject", name, NoRange)>>]
    /\ paging' = IF last'.err.kind = "nil" /\ f.kind = "dir" THEN Unpaged ELSE paging
    /\ UNCHANGED <<scn, f, acc, accStart, conc, streaming>>

\* Remove that reports a key that is not there
RemoveStrict(name) ==
    /\ IF RejectedName(name)
       THEN /\ last' = [NoCall EXCEPT !.op = "Remove", !.path = name,
                                      !.err = PathError("remove", name, "ErrInvalid")]
            /\ UNCHANGED <<store, stale, written>>
       ELSE /\ store' = DeleteObject(store, name)
            /\ written' = DeleteObject(written, name)
            /\ stale' = (stale \/ f.kind = "dir" \/ (f.kind = "file" /\ f.name = name))
            /\ last' = [NoCall EXCEPT !.op = "Remove", !.path = name,
                                      !.err = IF name \in DOMAIN store THEN NoErr
                                              ELSE PathError("remove", name, "ErrNotExist"),
                                      !.reqs = <<Req("DeleteObject", name, NoRange)>>,
                                      !.tick = IF last.op = "Remove" /\ last.path = name
                                                    /\ last.err.kind = "nil"
                                               THEN 1 ELSE 0]
    /\ paging' = IF last'.err.kind = "nil" /\ f.kind = "dir" THEN Unpaged ELSE paging
    /\ UNCHANGED <<scn, f, acc, accStart, conc, streaming>>

\* S3FS.Remove; tick is 1 when the call repeats a Remove of the same name
\* that succeeded
Remove(name) ==
    /\ IF RejectedName(name)
       THEN /\ last' = [NoCall EXCEPT !.op = "Remove", !.path = name,
                                      !.err = PathError("remove", name, "ErrInvalid")]
            /\ UNCHANGED <<store, stale, written>>
       ELSE /\ store' = DeleteObject(store, name)
            /\ written' = DeleteObject(written, name)
            /\ stale' = (stale \/ f.kind = "dir" \/ (f.kind = "file" /\ f.name = name))
            /\ last' = [NoCall EXCEPT !.op = "Remove", !.path = name,
                                      !.reqs = <<Req("DeleteObject", name, NoRange)>>,
                                      !.tick = IF last.op = "Remove" /\ last.path = name
                                                    /\ last.err.kind = "nil"
                                               THEN 1 ELSE 0]
    /\ paging' = IF last'.err.kind = "nil" /\ f.kind = "dir" THEN Unpaged ELSE paging
    /\ UNCHANGED <<scn, f, acc, accStart, conc, streaming>>

Stat(name, fault) ==
    /\ \E r \in { StatResult(store, name, fault) } :
           last' = [NoCall EXCEPT !.op = "Stat", !.path = name, !.err = r.err,
                                  !.reqs = r.reqs, !.info = r.file, !.fault = fault]
    /\ UNCHANGED <<scn, store, f, stale, acc, accStart, written, paging, conc, streaming>>

\* S3FS.ReadDir; the caller may keep one of the directories returned as a
\* handle (an entry is an fs.ReadDirFile)
ReadDir(name, fault) ==
    \E r \in { ReadDirResult(store, name, fault) } :
    LET dirs == { i \in 1..Len(r.entries) : r.entries[i].kind = "dir" }
    IN  /\ last' = [NoCall EXCEPT !.op = "ReadDir", !.path = name, !.err = r.err,
                                  !.reqs = r.reqs, !.entries = r.entries,
                                  !.fault = fault]
        /\ \E keep \in {0} \cup dirs :
            /\ f' = IF keep = 0 THEN f ELSE r.entries[keep]
            /\ stale' = IF keep = 0 THEN stale ELSE FALSE
            /\ acc' = IF keep = 0 THEN acc ELSE <<>>
            /\ accStart' = IF keep = 0 THEN accStart ELSE 0
            /\ paging' = IF keep = 0 THEN paging ELSE NoPaging
            /\ streaming' = IF keep = 0 THEN streaming ELSE FALSE
        /\ UNCHANGED <<scn, store, written, conc>>

\* s3File.ReadDir(n)
NextPage(n) ==
    /\ f.kind # "none"
    /\ \E r \in { NextPageResult(f, store, n) } :
       LET names == { r.entries[i].name : i \in 1..Len(r.entries) }
       IN  /\ f' = r.file
           /\ last' = [NoCall EXCEPT !.op = "NextPage", !.n = n, !.err = r.err,
                                     !.reqs = r.reqs, !.entries = r.entries,
                                     !.tick = IF last.op = "NextPage" THEN 1 - last.tick
                                              ELSE 0]
           /\ paging' = IF f.kind # "dir" \/ ~f.s3client \/ paging.done \/ paging = Unpaged
                         THEN paging
                         ELSE IF n <= 0 \/ paging.n \notin {0, n}
                         THEN Unpaged
                         ELSE [n |-> n,
                               seen |-> paging.seen \cup names,
                               dup |-> paging.dup \/ (paging.seen \cap names # {}),
                               done |-> r.err.kind = "EOF"]
    /\ UNCHANGED <<scn, store, stale, acc, accStart, written, conc, streaming>>

Next ==
    \/ \E name \in scn.names, fault \in scn.faults : Open(name, fault)
    \/ \E name \in scn.names, fault \in scn.faults : Stat(name, fault)
    \/ \E name \in scn.names, fault \in scn.faults : ReadDir(name, fault)
    \/ \E n \in scn.pages : NextPage(n)
    \/ \E buf \in scn.bufs : Read(buf)
    \/ \E buf \in scn.bufs, off \in scn.offs : ReadAt(buf, off)
    \/ \E offset \in scn.deltas, whence \in scn.whences : Seek(offset, whence)
    \/ Close
    \/ \E name \in scn.names, data \in scn.data : WriteFile(name, data)
    \/ \E name \in scn.names : Remove(name)

Spec == Init /\ [][Next]_vars

\* A caller that pages through one directory: the bucket holds any of the
\* Listing keys and is left alone, the handle is the root's or that of a
\* directory ReadDir(".") returned, and the caller calls ReadDir(n) on it
\* with one n > 0 again and again.
PagingInit ==
    /\ scn \in { Listing({n}) : n \in 1..MaxPage }
    /\ store \in UNION { [keys -> { Payload(1, 1) }] : keys \in SUBSET ListingKeys }
    /\ LET r == ReadDirResult(store, Root, 0)
       IN  f \in { DirFile(Root, TRUE) }
                 \cup { r.entries[i] : i \in { j \in 1..Len(r.entries) : r.entries[j].kind = "dir" } }
    /\ last = NoCall
    /\ stale = FALSE
    /\ acc = <<>>
    /\ accStart = 0
    /\ written = store
    /\ paging = NoPaging
    /\ conc = NoConc
    /\ streaming = FALSE

PagingNext == \E n \in scn.pages : NextPage(n)

PagingSpec == PagingInit /\ [][PagingNext]_vars /\ WF_vars(PagingNext)

----------------------------------------------------------------------------
(* buildRange on its own *)

\* greatest offset and greatest length, of either sign, given to buildRange
MaxOffset == 9

MaxLength == 5

\* nobody calls the filesystem or a handle
NoCallers ==
    [names |-> {}, data |-> {}, bufs |-> {}, offs |-> {}, deltas |-> {}, whences |-> {},
     pages |-> {}, faults |-> {}]

RangeInit ==
    /\ scn = NoCallers
    /\ store = <<>>
    /\ f = NoFile
    /\ last = NoCall
    /\ stale = FALSE
    /\ acc = <<>>
    /\ accStart = 0
    /\ written = <<>>
    /\ paging = NoPaging
    /\ conc = NoConc
    /\ streaming = FALSE

\* one call of buildRange; the record keeps the offset (at), the length
\* (buf) and the range returned, as that of a request
BuildRange(offset, length) ==
    /\ last' = [NoCall EXCEPT !.op = "buildRange", !.at = offset, !.buf = length,
                              !.reqs = <<Req("GetObject", <<>>, buildRange(offset, length))>>]
    /\ UNCHANGED <<scn, store, f, stale, acc, accStart, written, paging, conc, streaming>>

RangeNext ==
    \E offset \in 0..MaxOffset, length \in (0 - MaxLength)..MaxLength :
        BuildRange(offset, length)

RangeSpec == RangeInit /\ [][RangeNext]_vars

----------------------------------------------------------------------------
(* Goroutines sharing one handle *)

\* Two goroutines call Read, ReadAt, Seek, Close and ReadDir on one handle.
\* A method is a sequence of steps, one per access to the mutex or to a
\* field of the handle outside it; under the mutex Seek and Close first
\* close the body's stream and then drop the body, and ReadAt first gets its
\* stream and then reads and closes it.  conc.pc is where each goroutine
\* stands, conc.arg the arguments of its call, conc.cursor what its ReadDir
\* read from lastDirEntry, conc.access the last access to offset, body or
\* lastDirEntry and whether the goroutine held the mutex at that moment,
\* conc.closed whether the stream of the body the handle holds has been
\* closed, conc.late whether a Read has read from the body after that.
Procs == { 1, 2 }

Methods == { "Read", "ReadAt", "Seek", "Close", "ReadDir" }

\* the callers of the shared handle
Sharing ==
    [names |-> { Root, <<"a">> }, data |-> { Payload(1, MaxLen) },
     bufs |-> { 1 }, offs |-> { 0 }, deltas |-> { 0, 1 },
     whences |-> { SeekStart }, pages |-> { 1 }, faults |-> { 0 }]

Args == [buf : Sharing.bufs, off : Sharing.offs, offset : Sharing.deltas,
         whence : Sharing.whences, n : Sharing.pages]

Access(p, field, write) ==
    [proc |-> p, field |-> field, write |-> write, locked |-> conc.mutex = p]

\* the bucket holds one object; the handle is what Open returned for it or
\* for the root
RaceInit ==
    /\ scn = Sharing
    /\ store = [k \in { <<"a">> } |-> Payload(1, MaxLen)]
    /\ f \in { OpenResult(store, name, 0).file : name \in Sharing.names }
    /\ last = NoCall
    /\ stale = FALSE
    /\ acc = <<>>
    /\ accStart = 0
    /\ written = store
    /\ paging = NoPaging
    /\ conc = [mutex |-> 0, pc |-> [p \in Procs |-> "idle"],
               arg |-> [p \in Procs |-> CHOOSE a \in Args : TRUE],
               cursor |-> [p \in Procs |-> <<>>], access |-> NoAccess,
               closed |-> FALSE, late |-> FALSE]
    /\ streaming = FALSE

\* a goroutine calls a method
Call(p, m, a) ==
    /\ conc.pc[p] = "idle"
    /\ conc' = [conc EXCEPT !.pc[p] = m, !.arg[p] = a]
    /\ UNCHANGED <<scn, store, f, last, stale, acc, accStart, written, paging, streaming>>

\* Read before it takes the mutex: the IsDir test, then the test of offset
\* against size
ReadCheck(p) ==
    /\ conc.pc[p] = "Read"
    /\ IF f.kind = "dir"
       THEN /\ conc' = [conc EXCEPT !.pc[p] = "idle"]
            /\ last' = [NoCall EXCEPT !.op = "Read", !.buf = conc.arg[p].buf,
                                      !.err = PathError("read", f.name, "IsDir")]
       ELSE IF f.offset >= f.size
       THEN /\ conc' = [conc EXCEPT !.pc[p] = "idle",
                                    !.access = Access(p, "offset", FALSE)]
            /\ last' = [NoCall EXCEPT !.op = "Read", !.buf = conc.arg[p].buf,
                                      !.pre = f.offset, !.err = Bare("EOF"), !.via = "eof"]
       ELSE /\ conc' = [conc EXCEPT !.pc[p] = "Read:Lock",
                                    !.access = Access(p, "offset", FALSE)]
            /\ last' = last
    /\ streaming' = (f.kind = "file")
    /\ UNCHANGED <<scn, store, f, stale, acc, accStart, written, paging>>

\* Lock that does not wait for the goroutine that holds the mutex
LockAnyway(p) ==
    /\ conc.pc[p] \in { "Read:Lock", "Seek", "Close" }
    /\ conc' = [conc EXCEPT !.mutex = p,
                            !.pc[p] = IF conc.pc[p] = "Read:Lock" THEN "Read:Locked"
                                      ELSE IF conc.pc[p] = "Seek" THEN "Seek:Locked"
                                      ELSE "Close:Locked"]
    /\ UNCHANGED <<scn, store, f, last, stale, acc, accStart, written, paging, streaming>>

\* mutex.Lock() at the head of Seek and Close, and in Read after its tests
Lock(p) ==
    /\ conc.pc[p] \in { "Read:Lock", "Seek", "Close" }
    /\ conc.mutex = 0
    /\ conc' = [conc EXCEPT !.mutex = p,
                            !.pc[p] = IF conc.pc[p] = "Read:Lock" THEN "Read:Locked"
                                      ELSE IF conc.pc[p] = "Seek" THEN "Seek:Locked"
                                      ELSE "Close:Locked"]
    /\ UNCHANGED <<scn, store, f, last, stale, acc, accStart, written, paging, streaming>>

\* the rest of Read with a ReadAt that locks the mutex Read already holds
ReadUnderLockRelocks(p) ==
    /\ conc.pc[p] = "Read:Locked"
    /\ conc.mutex = 0
    /\ \E r \in ReadLocked(f, store, conc.arg[p].buf) :
        /\ f' = [f EXCEPT !.offset = @ + r.n, !.body = r.body]
        /\ last' = [NoCall EXCEPT !.op = "Read", !.buf = conc.arg[p].buf, !.pre = f.offset,
                                  !.n = r.n, !.data = r.data, !.err = r.err,
                                  !.reqs = r.reqs, !.via = r.via, !.short = r.short,
                                  !.leak = ~r.closed]
    /\ conc' = [conc EXCEPT !.mutex = 0, !.pc[p] = "idle",
                            !.access = Access(p, "offset", TRUE),
                            !.late = @ \/ (f.body.open /\ conc.closed)]
    /\ UNCHANGED <<scn, store, stale, acc, accStart, written, paging, streaming>>

\* the rest of Read, up to the deferred Unlock: from the body when the
\* handle holds one, through ReadAt otherwise (ReadAt takes no lock)
ReadUnderLock(p) ==
    /\ conc.pc[p] = "Read:Locked"
    /\ \E r \in ReadLocked(f, store, conc.arg[p].buf) :
        /\ f' = [f EXCEPT !.offset = @ + r.n, !.body = r.body]
        /\ last' = [NoCall EXCEPT !.op = "Read", !.buf = conc.arg[p].buf, !.pre = f.offset,
                                  !.n = r.n, !.data = r.data, !.err = r.err,
                                  !.reqs = r.reqs, !.via = r.via, !.short = r.short,
                                  !.leak = ~r.closed]
    /\ conc' = [conc EXCEPT !.mutex = 0, !.pc[p] = "idle",
                            !.access = Access(p, "offset", TRUE),
                            !.late = @ \/ (f.body.open /\ conc.closed)]
    /\ UNCHANGED <<scn, store, stale, acc, accStart, written, paging, streaming>>

\* Seek and Close under the mutex: body.Close() when the handle holds a
\* body; the Close of a stream succeeds
CloseBody(p) ==
    /\ conc.pc[p] \in { "Seek:Locked", "Close:Locked" }
    /\ conc' = [conc EXCEPT !.pc[p] = IF conc.pc[p] = "Seek:Locked" THEN "Seek:Closed"
                                      ELSE "Close:Closed",
                            !.closed = f.body.open,
                            !.access = Access(p, "body", FALSE)]
    /\ UNCHANGED <<scn, store, f, last, stale, acc, accStart, written, paging, streaming>>

\* ReadAt that takes the mutex before it asks for its stream
ReadAtOpenLocking(p) ==
    /\ conc.pc[p] = "ReadAt"
    /\ conc.mutex = 0
    /\ conc' = [conc EXCEPT !.pc[p] = "ReadAt:Stream", !.mutex = p]
    /\ UNCHANGED <<scn, store, f, last, stale, acc, accStart, written, paging, streaming>>

\* ReadAt up to the return of readerAt: the ranged GetObject; an error of
\* the request returns at once
ReadAtOpen(p) ==
    /\ conc.pc[p] = "ReadAt"
    /\ \E r \in { readerAt(f, store, conc.arg[p].off, conc.arg[p].buf) } :
        IF r.err.kind # "nil"
        THEN /\ conc' = [conc EXCEPT !.pc[p] = "idle"]
             /\ last' = [NoCall EXCEPT !.op = "ReadAt", !.buf = conc.arg[p].buf,
                                       !.at = conc.arg[p].off, !.pre = f.offset,
                                       !.err = r.err, !.reqs = <<r.req>>, !.via = "readAt"]
        ELSE /\ conc' = [conc EXCEPT !.pc[p] = "ReadAt:Stream"]
             /\ last' = last
    /\ UNCHANGED <<scn, store, f, stale, acc, accStart, written, paging, streaming>>

\* the rest of ReadAt: io.ReadFull on the stream and its Close
ReadAtFinish(p) ==
    /\ conc.pc[p] = "ReadAt:Stream"
    /\ \E r \in { ReadAtResult(f, store, conc.arg[p].buf, conc.arg[p].off) } :
        last' = [NoCall EXCEPT !.op = "ReadAt", !.buf = conc.arg[p].buf,
                                  !.at = conc.arg[p].off, !.pre = f.offset, !.n = r.n,
                                  !.data = r.data, !.err = r.err, !.reqs = r.reqs,
                                  !.via = "readAt", !.short = r.short, !.leak = ~r.closed]
    /\ conc' = [conc EXCEPT !.pc[p] = "idle"]
    /\ UNCHANGED <<scn, store, f, stale, acc, accStart, written, paging, streaming>>

\* the rest of Seek, up to the deferred Unlock
SeekUnderLock(p) ==
    /\ conc.pc[p] = "Seek:Closed"
    /\ \E r \in { SeekResult(f, conc.arg[p].offset, conc.arg[p].whence) } :
           /\ f' = r.file
           /\ last' = [NoCall EXCEPT !.op = "Seek", !.at = conc.arg[p].offset,
                                     !.whence = conc.arg[p].whence, !.pre = f.offset,
                                     !.ret = r.ret, !.err = r.err,
                                     !.closes = IF f.body.open THEN 1 ELSE 0]
    /\ conc' = [conc EXCEPT !.mutex = 0, !.pc[p] = "idle", !.closed = FALSE,
                            !.access = Access(p, "offset", TRUE)]
    /\ streaming' = FALSE
    /\ UNCHANGED <<scn, store, stale, acc, accStart, written, paging>>

\* the rest of Close, up to the deferred Unlock
CloseUnderLock(p) ==
    /\ conc.pc[p] = "Close:Closed"
    /\ f' = CloseResult(f)
    /\ last' = [NoCall EXCEPT !.op = "Close", !.pre = f.offset,
                              !.closes = IF f.body.open THEN 1 ELSE 0,
                              !.tick = IF last.op = "Close" THEN 1 ELSE 0]
    /\ conc' = [conc EXCEPT !.mutex = 0, !.pc[p] = "idle", !.closed = FALSE,
                            !.access = Access(p, "body", TRUE)]
    /\ streaming' = FALSE
    /\ UNCHANGED <<scn, store, stale, acc, accStart, written, paging>>

\* ReadDir up to its listing request: the IsDir test, then lastDirEntry is
\* read into the request
ReadDirCursor(p) ==
    /\ conc.pc[p] = "ReadDir"
    /\ IF f.kind # "dir"
       THEN /\ conc' = [conc EXCEPT !.pc[p] = "idle"]
            /\ last' = [NoCall EXCEPT !.op = "NextPage", !.n = conc.arg[p].n,
                                      !.err = PathError("read", Name(f), "ErrNotExist")]
       ELSE /\ conc' = [conc EXCEPT !.pc[p] = "ReadDir:List", !.cursor[p] = f.lastDirEntry,
                                    !.access = Access(p, "lastDirEntry", FALSE)]
            /\ last' = last
    /\ UNCHANGED <<scn, store, f, stale, acc, accStart, written, paging, streaming>>

\* the rest of ReadDir: the listing after the cursor that was read, and
\* after a full page the write of lastDirEntry
ReadDirList(p) ==
    /\ conc.pc[p] = "ReadDir:List"
    /\ \E r \in { NextPageResult([f EXCEPT !.lastDirEntry = conc.cursor[p]], store,
                                  conc.arg[p].n) } :
        LET moved == r.file.lastDirEntry # conc.cursor[p]
        IN  /\ f' = IF moved THEN [f EXCEPT !.lastDirEntry = r.file.lastDirEntry] ELSE f
            /\ last' = [NoCall EXCEPT !.op = "NextPage", !.n = conc.arg[p].n,
                                      !.err = r.err, !.reqs = r.reqs, !.entries = r.entries]
            /\ conc' = [conc EXCEPT !.pc[p] = "idle",
                                    !.access = IF moved THEN Access(p, "lastDirEntry", TRUE)
                                               ELSE @]
    /\ UNCHANGED <<scn, store, stale, acc, accStart, written, paging, streaming>>

RaceNext ==
    \/ \E p \in Procs, m \in Methods, a \in Args : Call(p, m, a)
    \/ \E p \in Procs : ReadCheck(p)
    \/ \E p \in Procs : Lock(p)
    \/ \E p \in Procs : ReadUnderLock(p)
    \/ \E p \in Procs : ReadAtOpen(p)
    \/ \E p \in Procs : ReadAtFinish(p)
    \/ \E p \in Procs : CloseBody(p)
    \/ \E p \in Procs : SeekUnderLock(p)
    \/ \E p \in Procs : CloseUnderLock(p)
    \/ \E p \in Procs : ReadDirCursor(p)
    \/ \E p \in Procs : ReadDirList(p)

RaceSpec == RaceInit /\ [][RaceNext]_vars

\* Two goroutines that call the methods that take the mutex, Read, Seek
\* and Close, on the handle Open returned for an object of one byte.
LockInit ==
    /\ scn = Sharing
    /\ store = [k \in { <<"a">> } |-> Payload(1, 1)]
    /\ f = OpenResult(store, <<"a">>, 0).file
    /\ last = NoCall
    /\ stale = FALSE
    /\ acc = <<>>
    /\ accStart = 0
    /\ written = store
    /\ paging = NoPaging
    /\ conc = [mutex |-> 0, pc |-> [p \in Procs |-> "idle"],
               arg |-> [p \in Procs |-> CHOOSE a \in Args : a.offset = 0],
               cursor |-> [p \in Procs |-> <<>>], access |-> NoAccess,
               closed |-> FALSE, late |-> FALSE]
    /\ streaming = FALSE

\* the steps of goroutine p that wait for nothing
Runs(p) ==
    \/ ReadCheck(p)
    \/ ReadUnderLock(p)
    \/ CloseBody(p)
    \/ SeekUnderLock(p)
    \/ CloseUnderLock(p)

LockNext ==
    \/ \E p \in Procs, m \in { "Read", "Seek", "Close" } : Call(p, m, conc.arg[p])
    \/ \E p \in Procs : Lock(p)
    \/ \E p \in Procs : Runs(p)

\* Goroutines that are scheduled and a client whose requests return: a step
\* that waits for nothing is taken, and a goroutine that waits in Lock gets
\* the mutex if it is free again and again (sync.Mutex hands the mutex to a
\* waiter that has waited long).
LockSpec ==
    /\ LockInit
    /\ [][LockNext]_vars
    /\ \A p \in Procs : WF_vars(Runs(p)) /\ SF_vars(Lock(p))

----------------------------------------------------------------------------
(* Claims *)

\* the handle is a file handle whose object has not been written or removed
\* since the handle was opened
Unchanging == f.kind = "file" /\ ~stale

\* the closed range bytes=first-last
Closed(first, last_) == [kind |-> "closed", first |-> first, last |-> last_]

\* the absolute offset the last Seek asked for, from its arguments
Asked ==
    last.at + (IF last.whence = SeekCurrent THEN last.pre
               ELSE IF last.whence = SeekEnd THEN f.size ELSE 0)

KnownWhence == last.whence \in { SeekStart, SeekCurrent, SeekEnd }

\* the client answered every request of the last call
Answered == last.fault = 0

\* C1: on an unchanging object every Read that returns n bytes returns the
\* object's bytes [off, off+n), off being the offset before the call, and
\* leaves the offset at off+n; the bytes read since the last successful Seek
\* to k (or since Open, k = 0) are the object's bytes [k, offset), and when a
\* Read reports end-of-stream they are the whole suffix that starts at k.
C1_ReadReturnsObjectBytes ==
    Unchanging =>
        /\ acc = SubSeq(store[f.name], accStart + 1, f.offset)
        /\ last.op = "Read" =>
            /\ Len(last.data) = last.n
            /\ last.data = SubSeq(store[f.name], last.pre + 1, last.pre + last.n)
            /\ f.offset = last.pre + last.n
            /\ last.err.kind = "EOF" =>
                acc = SubSeq(store[f.name], accStart + 1, Len(store[f.name]))

\* a Seek to 1 was followed by reads up to end-of-stream
C1_Witness ==
    /\ Unchanging
    /\ last.op = "Read"
    /\ last.err.kind = "EOF"
    /\ accStart = 1
    /\ Len(acc) = 1
    /\ f.size = 2

\* C2: after a successful WriteFile(p, data), p neither the root nor empty,
\* Open(p) succeeds with a file handle, and reading it to end-of-stream
\* returns exactly data.
C2_WriteThenRead ==
    /\ (last.op = "Open" /\ last.path \in DOMAIN written) =>
        /\ last.err.kind = "nil"
        /\ f.kind = "file"
        /\ f.name = last.path
    /\ (Unchanging /\ f.name \in DOMAIN written /\ accStart = 0
            /\ last.op = "Read" /\ last.err.kind = "EOF") =>
        acc = written[f.name]

\* C3: a file handle's offset is always within [0, size], size being the
\* size recorded when the handle was created, also when WriteFile and Remove
\* are called in between.
C3_OffsetWithinSize ==
    f.kind = "file" => (0 <= f.offset /\ f.offset <= f.size)

\* C4: a Seek with a known whence whose target lies in [0, size] succeeds,
\* sets the offset to the target and returns it.
C4_SeekInRange ==
    (last.op = "Seek" /\ KnownWhence /\ 0 <= Asked /\ Asked <= f.size) =>
        /\ last.err.kind = "nil"
        /\ last.ret = Asked
        /\ f.offset = Asked

\* the second of two Seek(1, Current) from offset 0 on a 2-byte object
C4_Witness ==
    /\ last.op = "Seek"
    /\ last.whence = SeekCurrent
    /\ last.at = 1
    /\ last.pre = 1
    /\ last.ret = 2
    /\ f.size = 2

\* C5: a Seek with an unknown whence, or whose target is below 0 or above
\* size, fails with ErrInvalid and leaves the offset as it was.
C5_SeekRejected ==
    (last.op = "Seek" /\ (~KnownWhence \/ Asked < 0 \/ Asked > f.size)) =>
        /\ last.err = PathError("seek", f.name, "ErrInvalid")
        /\ last.ret = 0
        /\ f.offset = last.pre

\* a Seek past the end was rejected at a non-zero offset
C5_Witness ==
    /\ last.op = "Seek"
    /\ KnownWhence
    /\ Asked > f.size
    /\ last.err.kind = "ErrInvalid"
    /\ last.pre > 0

\* C6 as claimed: on an unchanging object ReadAt(buffer, off) with off >= 0
\* and off + len(buffer) <= size issues one GET for the closed range
\* bytes=off-(off+len(buffer)-1) and returns len(buffer) bytes, the object's
\* bytes [off, off+len(buffer)), with no error.
C6_ReadAtAnyLength ==
    (Unchanging /\ last.op = "ReadAt" /\ last.at >= 0
            /\ last.at + last.buf <= Len(store[f.name])) =>
        /\ last.reqs = <<Req("GetObject", f.name, Closed(last.at, last.at + last.buf - 1))>>
        /\ last.n = last.buf
        /\ last.data = SubSeq(store[f.name], last.at + 1, last.at + last.buf)
        /\ last.err.kind = "nil"

\* C6 amended: the same for a buffer of at least one byte.
C6_ReadAtWithinObject ==
    (Unchanging /\ last.op = "ReadAt" /\ last.buf >= 1 /\ last.at >= 0
            /\ last.at + last.buf <= Len(store[f.name])) =>
        /\ last.reqs = <<Req("GetObject", f.name, Closed(last.at, last.at + last.buf - 1))>>
        /\ last.n = last.buf
        /\ last.data = SubSeq(store[f.name], last.at + 1, last.at + last.buf)
        /\ last.err.kind = "nil"

\* a ReadAt of the second byte of a 2-byte object
C6_Witness ==
    /\ Unchanging
    /\ last.op = "ReadAt"
    /\ last.at = 1
    /\ last.buf = 1
    /\ last.n = 1
    /\ Len(store[f.name]) = 2

\* C7: on an unchanging object a Read never returns a truncation error: at
\* offset = size it returns 0 bytes and end-of-stream, elsewhere a non-empty
\* buffer gets at least one byte, a Read after a Seek or Close delivers all
\* the remaining bytes that fit with no error, and end-of-stream is only
\* reported once the offset is size.
C7_EndOfStream ==
    (Unchanging /\ last.op = "Read") =>
        /\ last.err.kind \in { "nil", "EOF" }
        /\ last.pre = f.size => (last.n = 0 /\ last.err.kind = "EOF")
        /\ (last.pre < f.size /\ last.buf >= 1) => last.n >= 1
        /\ (last.via = "readAt" /\ last.buf >= 1) =>
            (last.n = Min(last.buf, f.size - last.pre) /\ last.err.kind = "nil")
        /\ last.err.kind = "EOF" => f.offset = f.size

\* a Read after a Seek whose buffer reaches past the last byte
C7_Witness ==
    /\ Unchanging
    /\ last.op = "Read"
    /\ last.via = "readAt"
    /\ last.short
    /\ last.n >= 1
    /\ last.pre + last.buf > f.size
    /\ f.offset = f.size

\* C8: a Read whose stream ended before the buffer was filled, and that does
\* not leave the offset at size, returns a non-nil error.
C8_TruncationSurfaced ==
    (f.kind = "file" /\ last.op = "Read" /\ last.short /\ f.offset # f.size) =>
        last.err.kind # "nil"

\* C9: a ReadAt that returns n < len(buffer) returns a non-nil error.
C9_ReaderAtContract ==
    (last.op = "ReadAt" /\ last.n < last.buf) => last.err.kind # "nil"

\* C10: when the client answers its requests, Open of a valid non-root path
\* that keys no object returns a directory handle when some key lies under
\* path + "/", and fails with not-found otherwise.
C10_OpenDirectory ==
    (last.op = "Open" /\ Answered /\ ValidPath(last.path) /\ last.path # Root
            /\ last.path \notin DOMAIN store) =>
        IF \E k \in DOMAIN store : HasPrefix(k, last.path \o <<"/">>)
        THEN last.err.kind = "nil" /\ f.kind = "dir" /\ f.name = last.path
        ELSE last.err.kind = "ErrNotExist"

\* some key lies under name + "/"
HasKeysUnder(name) == \E k \in DOMAIN store : HasPrefix(k, name \o <<"/">>)

\* C11: when the client answers its request, Stat of a non-root path that
\* keys no object resolves to a directory whenever some key begins with
\* path + "/", whatever other keys share the string prefix path.
C11_StatDirectory ==
    (last.op = "Stat" /\ Answered /\ last.path # Root /\ last.path \notin DOMAIN store
            /\ HasKeysUnder(last.path)) =>
        (last.err.kind = "nil" /\ last.info.kind = "dir")

\* nm is the last element of path: it holds no "/" and path ends with it,
\* after a "/" or from its start
IsBasename(nm, path) ==
    /\ \A i \in 1..Len(nm) : nm[i] # "/"
    /\ Len(nm) <= Len(path)
    /\ SubSeq(path, Len(path) - Len(nm) + 1, Len(path)) = nm
    /\ (Len(nm) < Len(path) => path[Len(path) - Len(nm)] = "/")

\* C12: when the client answers its request, Stat of a non-root path that
\* keys an object returns a file entry of that object's size, named by the
\* path's last element; Stat of a path that keys no object and has no key
\* under path + "/" fails with not-found.
C12_StatFileOrNotFound ==
    (last.op = "Stat" /\ last.path # Root /\ Answered) =>
        /\ last.path \in DOMAIN store =>
            /\ last.err.kind = "nil"
            /\ last.info.kind = "file"
            /\ last.info.size = Len(store[last.path])
            /\ IsBasename(Name(last.info), last.path)
        /\ (last.path \notin DOMAIN store /\ ~HasKeysUnder(last.path)) =>
            last.err.kind = "ErrNotExist"

\* Stat of the object a/b while the directory a/ holds a second key
C12_Witness ==
    /\ last.op = "Stat"
    /\ last.path = <<"a", "/", "b">>
    /\ <<"a", "/", "a">> \in DOMAIN store
    /\ last.info.kind = "file"
    /\ last.info.size = 1
    /\ Name(last.info) = <<"b">>

\* the immediate children of the directory whose keys begin with prefix:
\* for every such key its next path element, a directory when a "/" follows
\* it and a file of the object's size otherwise
ChildrenOf(prefix) ==
    { LET i == SlashFrom(k, Len(prefix) + 1)
      IN  [dir |-> i <= Len(k),
           name |-> SubSeq(k, Len(prefix) + 1, i - 1),
           size |-> IF i <= Len(k) THEN 0 ELSE Len(store[k])] :
        k \in { x \in DOMAIN store : HasPrefix(x, prefix) } }

\* the entries a call returned, as the caller sees them
Listed(entries) ==
    { [dir |-> entries[i].kind = "dir", name |-> Name(entries[i]), size |-> entries[i].size] :
        i \in 1..Len(entries) }

\* C13: on a store of valid paths and with a client that answers, ReadDir of
\* the root, or of a valid path that keys no object and has keys under
\* path + "/", succeeds and returns
\* exactly one entry per immediate child, a directory or a file, named by
\* its last element.
C13_ReadDirChildren ==
    (last.op = "ReadDir" /\ Answered /\ ValidPath(last.path)
            /\ (\A k \in DOMAIN store : ValidPath(k))
            /\ (last.path = Root \/ (last.path \notin DOMAIN store /\ HasKeysUnder(last.path)))) =>
        LET prefix == IF last.path = Root THEN <<>> ELSE last.path \o <<"/">>
        IN  /\ last.err.kind = "nil"
            /\ Listed(last.entries) = ChildrenOf(prefix)
            /\ Len(last.entries) = Cardinality(ChildrenOf(prefix))

\* the handle is a directory handle that can list, and every ReadDir(n) on
\* it so far had the same n > 0 and saw the same store content
PagingRun == f.kind = "dir" /\ f.s3client /\ ~stale /\ paging.n > 0

\* the keys and common prefixes that are the immediate children of the handle
ChildNames ==
    LET prefix == IF f.name = Root THEN <<>> ELSE f.name
    IN  { prefix \o c.name \o (IF c.dir THEN <<"/">> ELSE <<>>) : c \in ChildrenOf(prefix) }

\* C14: while a directory handle is paged with one n > 0 over an unchanging
\* store, no entry is returned twice, and when end-of-stream is reported
\* every immediate child has been returned.
C14_PagesCoverOnce ==
    PagingRun =>
        /\ ~paging.dup
        /\ paging.done => paging.seen = ChildNames

\* C15: a caller that keeps calling ReadDir(n), n > 0, on a directory handle
\* over an unchanging store is eventually told end-of-stream.
C15_PagingTerminates == <>(last.op = "NextPage" /\ last.err.kind = "EOF")

\* goroutine p has accessed offset, body or lastDirEntry in its current
\* call and has not returned yet
Inside(p) ==
    conc.pc[p] \in { "Read:Lock", "Read:Locked", "Seek:Locked", "Seek:Closed",
                     "Close:Locked", "Close:Closed", "ReadDir:List" }

\* C16: every access of Read, Seek, Close and ReadDir to the handle's
\* offset, body and lastDirEntry is made by a goroutine that holds the
\* handle's mutex, and no two goroutines are between the first such access
\* and the return of their calls at the same time.
C16_AccessUnderLock ==
    /\ conc.access.locked
    /\ \A p \in DOMAIN conc.pc, q \in DOMAIN conc.pc :
        (p # q) => ~(Inside(p) /\ Inside(q))

\* C17: once Remove of a valid path has returned success, the path resolves
\* neither as a file nor as a directory: Stat and Open of it fail with
\* not-found.
C17_RemovedIsGone ==
    (last.op = "Remove" /\ last.err.kind = "nil" /\ ValidPath(last.path)) =>
        /\ StatResult(store, last.path, 0).err.kind = "ErrNotExist"
        /\ OpenResult(store, last.path, 0).err.kind = "ErrNotExist"

\* C18: a Remove of a name other than the root and the empty name that keys
\* no object returns success and leaves the content of the store as it was,
\* the first time and every time it is repeated.
C18_RemoveAbsent ==
    [][(last'.op = "Remove" /\ ~RejectedName(last'.path)
            /\ last'.path \notin DOMAIN store) =>
        (last'.err.kind = "nil" /\ store' = store)]_vars

\* a Remove of an absent key was repeated on a store that holds other keys
C18_Witness ==
    /\ last.op = "Remove"
    /\ last.tick = 1
    /\ last.err.kind = "nil"
    /\ last.path \notin DOMAIN store
    /\ HasKeysUnder(last.path)

\* C19: an Open of a path fs.ValidPath rejects, and a Remove or WriteFile of
\* the root or the empty name, fails with ErrInvalid, sends no request to
\* the client and leaves the store as it was.
C19_RejectedLocally ==
    [][((last'.op = "Open" /\ ~ValidPath(last'.path))
            \/ (last'.op \in { "Remove", "WriteFile" } /\ last'.path \in { Root, EmptyName })) =>
        (last'.err.kind = "ErrInvalid" /\ last'.reqs = <<>> /\ store' = store)]_vars

\* a WriteFile of the empty name was rejected on a store that holds a key
C19_Witness ==
    /\ last.op = "WriteFile"
    /\ last.path = EmptyName
    /\ last.err = PathError("write", EmptyName, "ErrInvalid")
    /\ last.reqs = <<>>
    /\ DOMAIN store # {}

\* the path rule is broken: the name is empty, begins with "/" or holds ".."
BreaksPathRule(name) ==
    \/ name = EmptyName
    \/ name[1] = "/"
    \/ \E i \in 1..(Len(name) - 1) : name[i] = "." /\ name[i + 1] = "."

\* C20: Open, Stat, ReadDir, Remove and WriteFile of a name that breaks the
\* path rule fail with ErrInvalid without a request to the client.
C20_PathRuleEverywhere ==
    (last.op \in { "Open", "Stat", "ReadDir", "Remove", "WriteFile" }
            /\ BreaksPathRule(last.path)) =>
        (last.err.kind = "ErrInvalid" /\ last.reqs = <<>>)

\* the client failed a request the last call made
Failed == last.fault \in 1..Len(last.reqs)

\* C21: when the client fails a request of Open, Stat or ReadDir with an
\* error that is not NotFound, the call returns an error that carries the
\* client's error; it never reports not-found.
C21_ClientFailureSurfaces ==
    (last.op \in { "Open", "Stat", "ReadDir" } /\ Failed) =>
        last.err.kind = Denied

\* the names PathError.Op may give the operation a caller of S3FS invoked;
\* for ReadDir both "readdir" and the "read" of the package's opRead count
OpNames(op) ==
    IF op = "Open" THEN { "open" }
    ELSE IF op = "Stat" THEN { "stat" }
    ELSE IF op = "ReadDir" THEN { "readdir", "read" }
    ELSE IF op = "Remove" THEN { "remove" }
    ELSE { "write" }

\* C22: every error Open, Stat, ReadDir, Remove or WriteFile returns is a
\* path error that carries the path the caller passed and the name of the
\* operation the caller invoked; none is a bare error.
C22_TypedPathErrors ==
    (last.op \in { "Open", "Stat", "ReadDir", "Remove", "WriteFile" }
            /\ last.err.kind # "nil") =>
        /\ last.err.path = last.path
        /\ last.err.op \in OpNames(last.op)

\* the last call failed, and not with not-found
FailedOtherThanNotFound == last.err.kind \notin { "nil", "ErrNotExist" }

\* C23: ReadDir of a path that is a file, and ReadDir(n) on a file handle,
\* fail with an error of a kind of its own, which is not not-found.
C23_NotADirectory ==
    /\ (last.op = "ReadDir" /\ Answered /\ ValidPath(last.path)
            /\ last.path \in DOMAIN store /\ ~HasKeysUnder(last.path)) =>
        FailedOtherThanNotFound
    /\ (last.op = "NextPage" /\ f.kind = "file") => FailedOtherThanNotFound

\* C24: Read on a directory handle fails with the is-a-directory error,
\* returns no byte, sends no request and leaves the handle and the store as
\* they were, whatever the handle's offset and lastDirEntry are.
C24_ReadOnDirectory ==
    [][(last'.op = "Read" /\ f.kind = "dir") =>
            /\ last'.err = PathError("read", f.name, "IsDir")
            /\ last'.n = 0
            /\ last'.data = <<>>
            /\ last'.reqs = <<>>
            /\ f' = f
            /\ store' = store]_vars

\* Read on the handle of a directory whose listing is under way
C24_Witness ==
    /\ last.op = "Read"
    /\ last.err.kind = "IsDir"
    /\ f.kind = "dir"
    /\ f.lastDirEntry # <<>>

\* C25: Close succeeds and leaves the handle without a body and otherwise
\* as it was; it closes the body when there is one, a Close that follows a
\* Close closes nothing and changes nothing, and Close on a directory handle
\* changes nothing.
C25_CloseIdempotent ==
    [][(last'.op = "Close") =>
            /\ last'.err.kind = "nil"
            /\ f' = [f EXCEPT !.body = NoBody]
            /\ last'.closes = (IF f.body.open THEN 1 ELSE 0)
            /\ (last.op = "Close" => (last'.closes = 0 /\ f' = f))
            /\ (f.kind = "dir" => (last'.closes = 0 /\ f' = f))]_vars

\* a second Close on a file handle that was opened with a body and read
C25_Witness ==
    /\ last.op = "Close"
    /\ last.tick = 1
    /\ last.closes = 0
    /\ f.kind = "file"
    /\ f.offset > 0

\* C26: ReadAt leaves the handle as it was, offset and body included, and
\* returns what it returns on a handle of the same object whose offset is 0
\* and whose body is nil; every sequential Read returns after it what it
\* would have returned before it.
C26_ReadAtStateless ==
    [][(last'.op = "ReadAt") =>
            /\ f' = f
            /\ \E r \in { ReadAtResult([f EXCEPT !.offset = 0, !.body = NoBody], store,
                                         last'.buf, last'.at) } :
                    /\ last'.n = r.n
                    /\ last'.data = r.data
                    /\ last'.err = r.err
            /\ \A buf \in scn.bufs :
                    ReadResults(f', store', buf) = ReadResults(f, store, buf)]_vars

\* a ReadAt that returned bytes from another place than the offset of the
\* handle, which is part-way through its body
C26_Witness ==
    /\ last.op = "ReadAt"
    /\ last.n > 0
    /\ last.at # f.offset
    /\ f.body.open
    /\ f.body.pos > 0

\* C27: Open(".") returns a directory handle of the root and Stat(".") the
\* root's directory entry, both without a request to the client, whatever
\* the store holds and whatever the client would answer.
C27_RootWithoutRequest ==
    /\ (last.op = "Open" /\ last.path = Root) =>
        /\ last.err.kind = "nil"
        /\ last.reqs = <<>>
        /\ f = DirFile(Root, TRUE)
    /\ (last.op = "Stat" /\ last.path = Root) =>
        /\ last.err.kind = "nil"
        /\ last.reqs = <<>>
        /\ last.info.kind = "dir"
        /\ Name(last.info) = Root

\* Stat(".") on an empty store through a client that fails its first request
C27_Witness ==
    /\ last.op = "Stat"
    /\ last.path = Root
    /\ last.fault = 1
    /\ store = <<>>
    /\ last.info.kind = "dir"

\* C28 as stated: the body of a file handle is there only after a sequential
\* Read has been initiated on the handle and no Seek or Close has happened
\* since.
C28_BodyOnlyWhileReading ==
    (f.kind = "file" /\ f.body.open) => streaming

\* C28 amended: a handle has a body after a step only when the step is an
\* Open whose GetObject answered with the object, or when it had the body
\* before the step and the step is neither a Seek nor a Close; so the body
\* of a handle is there only from such an Open until the next Seek or Close.
C28_BodyFromOpenToSeekOrClose ==
    [][f'.body.open =>
            \/ /\ last'.op = "Open"
               /\ last'.err.kind = "nil"
               /\ last'.reqs = <<Req("GetObject", last'.path, NoRange)>>
               /\ f'.name = last'.path
            \/ /\ f.body.open
               /\ f'.name = f.name
               /\ last'.op \notin { "Seek", "Close" }]_vars

\* a handle that Open returned has its body before any Read
C28_Witness ==
    /\ last.op = "Open"
    /\ f.kind = "file"
    /\ f.body.open
    /\ ~streaming

\* C29: a ReadAt, called by the caller or by Read, has closed the stream of
\* its request when it returns, on every return path.
C29_ReadAtClosesStream ==
    (last.op \in { "ReadAt", "Read" }) => ~last.leak

\* the handle is that of a directory other than the root which Open
\* returned: the names of the directories a listing returns end with "/"
OpenedDirectory ==
    /\ f.kind = "dir"
    /\ f.name # Root
    /\ f.name[Len(f.name)] # "/"

\* C30: the directory handle Open returns for a directory other than the
\* root has the client, and while the store is left alone its ReadDir(n)
\* for n <= 0 returns the entries ReadDir of the same path returns.
C30_OpenedDirectoryLists ==
    /\ (last.op = "Open" /\ last.err.kind = "nil" /\ OpenedDirectory) => f.s3client
    /\ (last.op = "NextPage" /\ last.n <= 0 /\ OpenedDirectory /\ ~stale) =>
        /\ last.err.kind = "nil"
        /\ last.entries = ReadDirResult(store, f.name, 0).entries

\* C31: the entries ReadDir and ReadDir(n) return are in the byte order of
\* their keys, directories and files interleaved as that order has them.
C31_EntriesInKeyOrder ==
    (last.op \in { "ReadDir", "NextPage" } /\ last.err.kind = "nil") =>
        \A i \in 1..(Len(last.entries) - 1) :
            LexLess(last.entries[i].name, last.entries[i + 1].name)

\* C35: a Seek that is rejected leaves the handle as it was: the offset is
\* the same and a body that was open before the call is still held.
C35_RejectedSeekKeepsHandle ==
    [][(last'.op = "Seek" /\ last'.err.kind # "nil") => f' = f]_vars

\* C37: on one store and with a client that answers, Open and Stat of a
\* valid path other than the root agree: Open returns a file handle exactly
\* when Stat returns a file, and then with the same size; Open returns a
\* directory handle exactly when Stat returns a directory; Open fails with
\* not-found exactly when Stat does.
C37_OpenAgreesWithStat ==
    (last.op = "Open" /\ Answered /\ ValidPath(last.path) /\ last.path # Root) =>
        \E s \in { StatResult(store, last.path, 0) }, ok \in { last.err.kind = "nil" } :
            /\ (ok /\ f.kind = "file") = (s.err.kind = "nil" /\ s.file.kind = "file")
            /\ (ok /\ f.kind = "file") => (f.name = last.path /\ f.size = s.file.size)
            /\ (ok /\ f.kind = "dir") = (s.err.kind = "nil" /\ s.file.kind = "dir")
            /\ (last.err.kind = "ErrNotExist") = (s.err.kind = "ErrNotExist")

\* Open of an object that has keys beneath it and a sibling key before them
C37_Witness ==
    /\ last.op = "Open"
    /\ last.path = <<"a">>
    /\ f.kind = "file"
    /\ f.size = 1
    /\ { <<"a">>, <<"a", "-">>, <<"a", "/", "b">> } \subseteq DOMAIN store

\* C38: an Open that returns a file handle has sent one GetObject without a
\* range and nothing else, and the handle has the body; a Read on a handle
\* that has the body sends no request and leaves the body in place.  So the
\* Reads from Open to end-of-stream, with no Seek between, send no request.
C38_OneRequestServesAllReads ==
    [][/\ (last'.op = "Open" /\ last'.err.kind = "nil" /\ f'.kind = "file") =>
            /\ last'.reqs = <<Req("GetObject", last'.path, NoRange)>>
            /\ f'.body.open
       /\ (last'.op = "Read" /\ f.kind = "file" /\ f.body.open) =>
            /\ last'.reqs = <<>>
            /\ f'.body.open]_vars

\* the Read that reports end-of-stream after the Reads since Open returned
\* the whole of an object of the greatest length from the body
C38_Witness ==
    /\ last.op = "Read"
    /\ last.err.kind = "EOF"
    /\ f.body.open
    /\ accStart = 0
    /\ Len(acc) = MaxLen
    /\ f.offset = MaxLen

\* the range the last call of buildRange returned
Returned == last.reqs[1].range

\* C39: for an offset >= 0, buildRange returns the closed range from offset
\* to offset + length - 1, of length bytes, when length >= 1; the range
\* from offset on when offset > 0 and length < 0; and no range exactly when
\* offset = 0 and length < 0.
C39_BuildRangeCases ==
    (last.op = "buildRange") =>
        /\ last.buf >= 1 =>
            /\ Returned = Closed(last.at, last.at + last.buf - 1)
            /\ Returned.last - Returned.first + 1 = last.buf
        /\ (last.at > 0 /\ last.buf < 0) =>
            Returned = [kind |-> "open", first |-> last.at, last |-> 0]
        /\ (Returned = NoRange) = (last.at = 0 /\ last.buf < 0)

\* buildRange(0, -1) has returned no range
C39_Witness ==
    /\ last.op = "buildRange"
    /\ last.at = 0
    /\ last.buf = 0 - 1
    /\ Returned = NoRange

\* C40: buildRange(offset, 0) returns a range of one byte, the byte at
\* offset, for every offset >= 0.
C40_ZeroLengthAsksOneByte ==
    (last.op = "buildRange" /\ last.buf = 0) =>
        /\ Returned.kind = "closed"
        /\ Returned.first = last.at
        /\ Returned.last - Returned.first + 1 = 1

\* C33: Read, Seek and Close calls of goroutines on one file handle over an
\* unchanging object return what some serial order of the calls returns.
\* In every serial order a Read returns bytes of the object from the offset
\* it found, or end-of-stream; so must a Read that races with a Seek.
C33_ReadAsInSomeOrder ==
    (last.op = "Read" /\ f.kind = "file") =>
        /\ last.err.kind \in { "nil", "EOF" }
        /\ last.data = SubSeq(store[f.name], last.pre + 1, last.pre + last.n)

\* the steps of a call that run with the mutex held
UnderLock == { "Read:Locked", "Seek:Locked", "Seek:Closed", "Close:Locked", "Close:Closed" }

\* C32 as stated: while a ReadAt has its stream, between the request and
\* the stream's Close, no other goroutine has a stream of a ReadAt or is
\* under the mutex in Read, Seek or Close.
C32_ReadAtSerialized ==
    \A p \in DOMAIN conc.pc, q \in DOMAIN conc.pc :
        (p # q /\ conc.pc[p] = "ReadAt:Stream") =>
            conc.pc[q] \notin UnderLock \cup { "ReadAt:Stream" }

\* C32 amended: ReadAt neither takes nor releases the mutex, and no step of
\* it touches the handle: whatever the other goroutine does meanwhile, the
\* handle is left as it was and the bytes returned are the object's bytes
\* at the offset asked.
C32_ReadAtTakesNoLock ==
    [][\A p \in DOMAIN conc.pc :
            (conc.pc[p] \in { "ReadAt", "ReadAt:Stream" } /\ conc'.pc[p] # conc.pc[p]) =>
                /\ conc'.mutex = conc.mutex
                /\ conc'.access = conc.access
                /\ f' = f
                /\ (conc'.pc[p] = "idle" /\ last'.err.kind = "nil") =>
                        last'.data = SubSeq(store[f.name], last'.at + 1, last'.at + last'.n)]_vars

\* a ReadAt has its stream while the other goroutine holds the mutex and
\* has closed the body of the handle
C32_Witness ==
    /\ conc # NoConc
    /\ conc.pc[1] = "ReadAt:Stream"
    /\ conc.pc[2] = "Seek:Closed"
    /\ conc.closed

\* C34: in every interleaving of Read, Seek and Close on one handle, no
\* Read reads from the body after Seek or Close has closed its stream.
C34_NoReadFromClosedBody == ~conc.late

\* a Read has read a byte from the body while the other goroutine waits in
\* Seek for the mutex
C34_Witness ==
    /\ conc # NoConc
    /\ last.op = "Read"
    /\ last.via = "body"
    /\ last.n > 0
    /\ conc.pc[1] = "idle"
    /\ conc.pc[2] = "Seek"

\* C36: when goroutines are scheduled and requests return, every call
\* returns, so none waits for the mutex for ever, and the mutex is released
\* after every call that took it.
C36_NoCallBlocksForever ==
    /\ \A p \in Procs : (conc.pc[p] # "idle") ~> (conc.pc[p] = "idle")
    /\ (conc.mutex # 0) ~> (conc.mutex = 0)

\* a Seek waits for the mutex that a Read holds, which reads through ReadAt
C36_Witness ==
    /\ conc # NoConc
    /\ conc.pc[1] = "Seek"
    /\ conc.pc[2] = "Read:Locked"
    /\ conc.mutex = 2
    /\ f.kind = "file"
    /\ ~f.body.open

====
